---- MODULE Spec2Model ----
(***************************************************************************)
(* Model of the risk-assessment core of src/app.py: the module-level model *)
(* loading (lines 23-25), risk_status, metric_status and the /predict      *)
(* handler (lines 59-106).                                                 *)
(*                                                                         *)
(* Numbers.  Python floats are modelled by exact rationals <<n, d>> with   *)
(* d > 0 in lowest terms; every threshold of the code (18.5, 0.7, ...) is  *)
(* such a rational.  Strings are sequences of one-character strings, so    *)
(* float(), int() and the f-string formatting are computed, not assumed.   *)
(***************************************************************************)
EXTENDS Integers, Sequences, FiniteSets, TLC

VARIABLES proc, artifacts, models, checks_names, req, call

vars == <<proc, artifacts, models, checks_names, req, call>>

(***************************************************************************)
(* Rational arithmetic.                                                    *)
(***************************************************************************)
Abs(x) == IF x < 0 THEN -x ELSE x

RECURSIVE GCD(_, _)
GCD(a, b) == IF b = 0 THEN a ELSE GCD(b, a % b)

Rat(n, d) == LET g == GCD(Abs(n), d) IN <<n \div g, d \div g>>

FromInt(i) == <<i, 1>>

RLess(a, b) == a[1] * b[2] < b[1] * a[2]

RGreater(a, b) == RLess(b, a)

RMul(a, b) == Rat(a[1] * b[1], a[2] * b[2])

\* a / b for b # 0
RDiv(a, b) ==
    IF b[1] > 0 THEN Rat(a[1] * b[2], a[2] * b[1])
    ELSE Rat(-(a[1] * b[2]), -(a[2] * b[1]))

\* round-half-even of the rational a to an integer
RoundHalfEven(a) ==
    LET fl  == a[1] \div a[2]
        rem == 2 * (a[1] - fl * a[2])
    IN  IF rem < a[2] THEN fl
        ELSE IF rem > a[2] THEN fl + 1
        ELSE IF fl % 2 = 0 THEN fl ELSE fl + 1

(***************************************************************************)
(* Strings, float(), int() and number formatting.                          *)
(***************************************************************************)
Digits == <<"0", "1", "2", "3", "4", "5", "6", "7", "8", "9">>

IsDigit(c) == \E k \in 1..10 : Digits[k] = c

DigitVal(c) == (CHOOSE k \in 1..10 : Digits[k] = c) - 1

AllDigits(s) == \A k \in 1..Len(s) : IsDigit(s[k])

RECURSIVE DigitsToInt(_)
DigitsToInt(s) ==
    IF s = <<>> THEN 0
    ELSE 10 * DigitsToInt(SubSeq(s, 1, Len(s) - 1)) + DigitVal(s[Len(s)])

RECURSIVE Pow10(_)
Pow10(k) == IF k = 0 THEN 1 ELSE 10 * Pow10(k - 1)

RECURSIVE IntToDigits(_)
IntToDigits(n) ==
    IF n < 10 THEN <<Digits[n + 1]>>
    ELSE IntToDigits(n \div 10) \o <<Digits[(n % 10) + 1]>>

HasSign(s) == s # <<>> /\ s[1] = "-"

Unsigned(s) == IF HasSign(s) THEN Tail(s) ELSE s

DotPos(s) == IF \E k \in 1..Len(s) : s[k] = "."
             THEN CHOOSE k \in 1..Len(s) : s[k] = "." /\ \A j \in 1..(k - 1) : s[j] # "."
             ELSE 0

\* does int(s) succeed: optional sign, then one or more digits
IntParses(s) == Unsigned(s) # <<>> /\ AllDigits(Unsigned(s))

IntOf(s) == IF HasSign(s) THEN FromInt(-DigitsToInt(Unsigned(s)))
            ELSE FromInt(DigitsToInt(Unsigned(s)))

\* does float(s) succeed: optional sign, digits, optional "." and digits,
\* with a digit on at least one side of the point
\* (the inputs are strings over digits, "-", "." and letters; exponents,
\* inf, nan and surrounding blanks are outside the input alphabet)
FloatParses(s) ==
    LET u == Unsigned(s)
        p == DotPos(u)
    IN  IF p = 0 THEN u # <<>> /\ AllDigits(u)
        ELSE /\ Len(u) > 1
             /\ AllDigits(SubSeq(u, 1, p - 1))
             /\ AllDigits(SubSeq(u, p + 1, Len(u)))

FloatOf(s) ==
    LET u    == Unsigned(s)
        p    == DotPos(u)
        ip   == IF p = 0 THEN u ELSE SubSeq(u, 1, p - 1)
        fp   == IF p = 0 THEN <<>> ELSE SubSeq(u, p + 1, Len(u))
        mag  == Rat(DigitsToInt(ip) * Pow10(Len(fp)) + DigitsToInt(fp), Pow10(Len(fp)))
    IN  IF HasSign(s) THEN <<-mag[1], mag[2]>> ELSE mag

\* f"{x:.1f}" for x >= 0
FormatOneDecimal(x) ==
    LET t == RoundHalfEven(RMul(x, FromInt(10)))
    IN  IntToDigits(t \div 10) \o <<".">> \o <<Digits[(t % 10) + 1]>>

(***************************************************************************)
(* risk_status and metric_status.                                          *)
(***************************************************************************)
risk_status_ge(prob) ==
    IF ~RLess(prob, <<7, 10>>) THEN "High Risk"
    ELSE IF ~RLess(prob, <<4, 10>>) THEN "Intermediate Risk"
    ELSE "Low Risk"

risk_status(prob) ==
    IF RGreater(prob, <<7, 10>>) THEN "High Risk"
    ELSE IF RGreater(prob, <<4, 10>>) THEN "Intermediate Risk"
    ELSE "Low Risk"

\* the "BMI" branch of metric_status
metric_status_BMI_le(value) ==
    IF ~RGreater(value, <<37, 2>>) THEN "Underweight"
    ELSE IF ~RGreater(value, FromInt(25)) THEN "Normal"
    ELSE IF ~RGreater(value, FromInt(30)) THEN "Overweight"
    ELSE "Obese"

metric_status_BMI(value) ==
    IF RLess(value, <<37, 2>>) THEN "Underweight"
    ELSE IF RLess(value, FromInt(25)) THEN "Normal"
    ELSE IF RLess(value, FromInt(30)) THEN "Overweight"
    ELSE "Obese"

\* the "BloodSugar" branch of metric_status
metric_status_BloodSugar(value) ==
    IF RLess(value, FromInt(100)) THEN "Normal"
    ELSE IF RLess(value, FromInt(126)) THEN "Prediabetes"
    ELSE "High"

\* the "BloodPressure" branch of metric_status; value is the pair (s, d)
metric_status_BloodPressure_and(value) ==
    LET s == value[1]
        d == value[2]
    IN  IF RLess(s, FromInt(120)) /\ RLess(d, FromInt(80)) THEN "Normal"
        ELSE IF RLess(s, FromInt(130)) /\ RLess(d, FromInt(80)) THEN "Elevated"
        ELSE IF RLess(s, FromInt(140)) /\ RLess(d, FromInt(90)) THEN "High BP Stage 1"
        ELSE "High BP Stage 2"

metric_status_BloodPressure(value) ==
    LET s == value[1]
        d == value[2]
    IN  IF RLess(s, FromInt(120)) /\ RLess(d, FromInt(80)) THEN "Normal"
        ELSE IF RLess(s, FromInt(130)) /\ RLess(d, FromInt(80)) THEN "Elevated"
        ELSE IF RLess(s, FromInt(140)) \/ RLess(d, FromInt(90)) THEN "High BP Stage 1"
        ELSE "High BP Stage 2"

\* the "Cholesterol" branch of metric_status
metric_status_Cholesterol(value) ==
    IF RLess(value, FromInt(200)) THEN "Desirable"
    ELSE IF RLess(value, FromInt(240)) THEN "Borderline High"
    ELSE "High"

metric_status(name, value) ==
    IF name = "BMI" THEN metric_status_BMI(value)
    ELSE IF name = "BloodSugar" THEN metric_status_BloodSugar(value)
    ELSE IF name = "BloodPressure" THEN metric_status_BloodPressure(value)
    ELSE IF name = "Cholesterol" THEN metric_status_Cholesterol(value)
    ELSE "Unknown"

(***************************************************************************)
(* Bounds and input sets.                                                  *)
(***************************************************************************)
NumRequests == 2

Requests == 1..NumRequests

diseases == <<"Obesity", "Hypertension", "Diabetes", "HeartDisease">>

\* A column name is the sequence of its parts, read as joined by "_":
\* <<"Age">> is "Age" and <<"Gender", "Male">> is "Gender_Male".
FL_A == << <<"Age">>, <<"BMI">>, <<"Gender", "Male">>, <<"Smoking", "Yes">> >>
FL_B == << <<"BMI">>, <<"Age">>, <<"Gender", "Male">>, <<"Smoking", "Yes">> >>
FL_C == << <<"Age">>, <<"Cholesterol">>, <<"Gender", "Female">> >>

\* A pickled classifier on disk: its training-time feature names and the
\* parameters of its (opaque) probability function.
Artifact(fl, b) == [present |-> TRUE, feature_names_in_ |-> fl, bias |-> b]
NoArtifact == [present |-> FALSE, feature_names_in_ |-> <<>>, bias |-> 0]

Uniform == [d \in {"Obesity", "Hypertension", "Diabetes", "HeartDisease"} |->
              Artifact(FL_A, IF d = "Obesity" THEN 1 ELSE IF d = "Hypertension" THEN 2
                             ELSE IF d = "Diabetes" THEN 3 ELSE 4)]

ArtifactConfigs ==
    { Uniform,
      [Uniform EXCEPT !["Obesity"] = Artifact(FL_C, 1)],
      [Uniform EXCEPT !["HeartDisease"] = Artifact(FL_B, 4)],
      [Uniform EXCEPT !["Diabetes"] = NoArtifact],
      [Uniform EXCEPT !["Obesity"] = NoArtifact] }

\* request.form of the end-to-end scenario of the documentation
BaseForm ==
    [ height     |-> <<"1", "7", "0">>,
      weight     |-> <<"7", "0">>,
      age        |-> <<"4", "5">>,
      gender     |-> "Male",
      smoking    |-> "Yes",
      alcohol    |-> "No",
      exercise   |-> "Daily",
      sleep      |-> <<"7", ".", "5">>,
      systolic   |-> <<"1", "2", "5">>,
      diastolic  |-> <<"7", "8">>,
      cholesterol |-> <<"2", "5", "0">>,
      bloodSugar |-> <<"1", "1", "0">> ]

Without(form, f) == [g \in (DOMAIN form) \ {f} |-> form[g]]

Forms ==
    { BaseForm,
      [BaseForm EXCEPT !.gender = "Female", !.weight = <<"9", "5">>,
                       !.systolic = <<"1", "3", "5">>, !.diastolic = <<"7", "0">>,
                       !.cholesterol = <<"1", "8", "0">>],
      [BaseForm EXCEPT !.height = <<"0">>],
      [BaseForm EXCEPT !.height = <<"-", "1", "7", "0">>],
      [BaseForm EXCEPT !.height = <<"a", "b", "c">>],
      [BaseForm EXCEPT !.age = <<"3", "0", ".", "5">>],
      Without(BaseForm, "height"),
      Without(BaseForm, "bloodSugar") }

(***************************************************************************)
(* The /predict handler, lines 59-106, as steps over the handler's local   *)
(* variables.                                                              *)
(***************************************************************************)
NoResponse == [status |-> 0, error |-> "", diseases |-> <<>>, metrics |-> <<>>]

\* The local variables of one activation of predict().  input_data is the
\* DataFrame as a sequence of columns [name, dtype, value].  Two fields
\* record history and are read by no step: encoded is the frame right after
\* get_dummies (line 82), and passed is the sequence of frames handed to
\* predict_proba (line 92), one per call, in the order of diseases.
NewLocals ==
    [ pc |-> "idle", data |-> <<>>, bmi |-> FromInt(0),
      input_data |-> <<>>, encoded |-> <<>>, i |-> 1,
      passed |-> <<>>, results |-> <<>>, response |-> NoResponse ]

\* The reads of request.form in evaluation order (lines 62-78); "bmi" is the
\* division of line 64.
ParseOrder ==
    << <<"height", "float">>, <<"weight", "float">>, <<"bmi", "div">>,
       <<"age", "int">>, <<"gender", "str">>, <<"smoking", "str">>,
       <<"alcohol", "str">>, <<"exercise", "str">>, <<"sleep", "float">>,
       <<"systolic", "float">>, <<"diastolic", "float">>,
       <<"cholesterol", "float">>, <<"bloodSugar", "float">> >>

\* the exception raised by the k-th read, or "none"
ReadError(data, k) ==
    LET f    == ParseOrder[k][1]
        kind == ParseOrder[k][2]
    IN  IF kind = "div"
        THEN IF FloatOf(data["height"])[1] = 0 THEN "ZeroDivisionError" ELSE "none"
        ELSE IF f \notin DOMAIN data THEN "BadRequestKeyError"
        ELSE IF kind = "float" /\ ~FloatParses(data[f]) THEN "ValueError"
        ELSE IF kind = "int" /\ ~IntParses(data[f]) THEN "ValueError"
        ELSE "none"

RECURSIVE FirstError(_, _)
FirstError(data, k) ==
    IF k > Len(ParseOrder) THEN "none"
    ELSE IF ReadError(data, k) # "none" THEN ReadError(data, k)
    ELSE FirstError(data, k + 1)

\* line 64
BMIOf(height, weight) ==
    LET h == RDiv(height, FromInt(100)) IN RDiv(weight, RMul(h, h))

\* The response Flask builds for an exception leaving the view function:
\* an HTTPException (BadRequestKeyError) is rendered with its own code, any
\* other exception is an internal server error.  Nothing the handler had
\* computed is part of it.
ErrorResponse(loc, exc) ==
    [ status   |-> IF exc = "BadRequestKeyError" THEN 400 ELSE 500,
      error    |-> exc,
      diseases |-> <<>>,
      metrics  |-> <<>> ]

Raise(loc, exc) == [loc EXCEPT !.pc = "failed", !.response = ErrorResponse(loc, exc)]

Column(n, t, v) == [name |-> n, dtype |-> t, value |-> v]

\* lines 61-80
predict_parse(loc) ==
    LET data == loc.data
        exc  == FirstError(data, 1)
        height == FloatOf(data.height)
        weight == FloatOf(data.weight)
        bmi    == BMIOf(height, weight)
    IN  IF exc # "none" THEN Raise(loc, exc)
        ELSE [loc EXCEPT
                !.pc = "encode",
                !.bmi = bmi,
                !.input_data =
                  << Column(<<"Age">>, "num", IntOf(data.age)),
                     Column(<<"Gender">>, "obj", data.gender),
                     Column(<<"Height_cm">>, "num", height),
                     Column(<<"Weight_kg">>, "num", weight),
                     Column(<<"Smoking">>, "obj", data.smoking),
                     Column(<<"Alcohol">>, "obj", data.alcohol),
                     Column(<<"Exercise_Freq">>, "obj", data.exercise),
                     Column(<<"Sleep_Hours">>, "num", FloatOf(data.sleep)),
                     Column(<<"SystolicBP">>, "num", FloatOf(data.systolic)),
                     Column(<<"DiastolicBP">>, "num", FloatOf(data.diastolic)),
                     Column(<<"Cholesterol">>, "num", FloatOf(data.cholesterol)),
                     Column(<<"BloodSugar">>, "num", FloatOf(data.bloodSugar)),
                     Column(<<"BMI">>, "num", bmi) >>]

RECURSIVE SelectDtype(_, _)
SelectDtype(df, t) ==
    IF df = <<>> THEN <<>>
    ELSE IF Head(df).dtype = t THEN <<Head(df)>> \o SelectDtype(Tail(df), t)
    ELSE SelectDtype(Tail(df), t)

\* pd.get_dummies on a one-row frame: the numeric columns in their order,
\* then one indicator column <name>_<value> per object column
get_dummies(df) ==
    LET objs == SelectDtype(df, "obj")
    IN  SelectDtype(df, "num") \o
        [k \in 1..Len(objs) |->
            Column(objs[k].name \o <<objs[k].value>>, "num", FromInt(1))]

\* line 82
predict_encode(loc) ==
    LET enc == get_dummies(loc.input_data)
    IN  [loc EXCEPT !.pc = "align", !.i = 1, !.input_data = enc, !.encoded = enc]

Names(df) == [k \in 1..Len(df) |-> df[k].name]

HasColumn(df, n) == \E k \in 1..Len(df) : df[k].name = n

ColumnOf(df, n) == df[CHOOSE k \in 1..Len(df) : df[k].name = n]

\* lines 85-87: add the missing columns of one model, valued 0
RECURSIVE FillMissing(_, _)
FillMissing(df, names) ==
    IF names = <<>> THEN df
    ELSE IF HasColumn(df, Head(names)) THEN FillMissing(df, Tail(names))
    ELSE FillMissing(Append(df, Column(Head(names), "num", FromInt(0))), Tail(names))

\* line 88: input_data[feature_names_in_]
Reindex(df, names) == [k \in 1..Len(names) |-> ColumnOf(df, names[k])]

\* lines 84-88, one iteration of the loop: the frame is REASSIGNED to its
\* projection onto the current model's columns, so the next iteration
\* starts from the projected frame
predict_align(loc) ==
    LET fn == models[loc.i].feature_names_in_
        df == Reindex(FillMissing(loc.input_data, fn), fn)
    IN  IF loc.i < Len(diseases)
        THEN [loc EXCEPT !.input_data = df, !.i = loc.i + 1]
        ELSE [loc EXCEPT !.input_data = df, !.i = 1, !.pc = "predict"]

RECURSIVE WeightedSum(_, _)
WeightedSum(df, k) ==
    IF k > Len(df) THEN 0
    ELSE k * (Abs(df[k].value[1]) + df[k].value[2]) + WeightedSum(df, k + 1)

\* The classifier's probability of the positive class: opaque, deterministic
\* in the ORDERED numeric vector.
predict_proba(model, X) == Rat((model.bias + WeightedSum(X, 1)) % 11, 10)

\* Input validation of the estimator: the width must be the training-time
\* width; a library that validates feature names (checks_names) also
\* requires the training-time names in the training-time order.
Accepts(model, X) ==
    /\ Len(X) = Len(model.feature_names_in_)
    /\ checks_names => Names(X) = model.feature_names_in_

\* lines 91-96, one iteration of the loop
predict_results(loc) ==
    LET m    == models[loc.i]
        X    == loc.input_data
        prob == predict_proba(m, X)
        seen == [loc EXCEPT !.passed = Append(loc.passed, X)]
        res  == [ disease |-> diseases[loc.i],
                  chance  |-> FormatOneDecimal(RMul(prob, FromInt(100))) \o <<"%">>,
                  status  |-> risk_status(prob) ]
    IN  IF ~Accepts(m, X) THEN Raise(seen, "ValueError")
        ELSE IF loc.i < Len(diseases)
        THEN [seen EXCEPT !.results = Append(loc.results, res), !.i = loc.i + 1]
        ELSE [seen EXCEPT !.results = Append(loc.results, res), !.i = 1, !.pc = "respond"]

\* lines 98-106
predict_respond(loc) ==
    LET data == loc.data
        metrics ==
          << [ name |-> "BMI",
               value |-> Rat(RoundHalfEven(RMul(loc.bmi, FromInt(10))), 10),
               status |-> metric_status("BMI", loc.bmi) ],
             [ name |-> "BloodPressure",
               value |-> data.systolic \o <<"/">> \o data.diastolic,
               status |-> metric_status("BloodPressure",
                              <<FloatOf(data.systolic), FloatOf(data.diastolic)>>) ],
             [ name |-> "BloodSugar",
               value |-> data.bloodSugar,
               status |-> metric_status("BloodSugar", FloatOf(data.bloodSugar)) ],
             [ name |-> "Cholesterol",
               value |-> data.cholesterol,
               status |-> metric_status("Cholesterol", FloatOf(data.cholesterol)) ] >>
    IN  [loc EXCEPT
           !.pc = "done",
           !.response = [ status |-> 200, error |-> "",
                          diseases |-> loc.results, metrics |-> metrics ]]

\* lines 84-88, the whole loop
RECURSIVE predict_align_loop(_)
predict_align_loop(loc) ==
    IF loc.pc = "align" THEN predict_align_loop(predict_align(loc)) ELSE loc

\* lines 91-96, the whole loop, left early by an exception
RECURSIVE predict_results_loop(_)
predict_results_loop(loc) ==
    IF loc.pc = "predict" THEN predict_results_loop(predict_results(loc)) ELSE loc

\* the whole handler
predict_step(loc) ==
    IF loc.pc = "parse" THEN predict_parse(loc)
    ELSE IF loc.pc = "encode" THEN predict_encode(loc)
    ELSE IF loc.pc = "align" THEN predict_align_loop(loc)
    ELSE IF loc.pc = "predict" THEN predict_results_loop(loc)
    ELSE IF loc.pc = "respond" THEN predict_respond(loc)
    ELSE loc

RECURSIVE predict(_)
predict(loc) ==
    IF loc.pc \in {"idle", "done", "failed"} THEN loc ELSE predict(predict_step(loc))

Start(form) == [NewLocals EXCEPT !.pc = "parse", !.data = form]

(***************************************************************************)
(* The process: module import (lines 10-25), app.run (line 318), requests. *)
(***************************************************************************)
NoCall == [fn |-> "none", name |-> "", arg |-> <<>>, ret |-> ""]

Init ==
    /\ proc = "loading"
    /\ artifacts \in ArtifactConfigs
    /\ models = <<>>
    /\ checks_names \in BOOLEAN
    /\ req = [r \in Requests |-> NewLocals]
    /\ call = NoCall

NextDisease == diseases[Len(models) + 1]

\* a load that falls back to a placeholder model when the file is missing
LoadModel_default ==
    /\ proc = "loading"
    /\ Len(models) < Len(diseases)
    /\ models' = Append(models, artifacts[NextDisease])
    /\ UNCHANGED <<proc, artifacts, checks_names, req, call>>

\* line 25, one joblib.load of the comprehension
LoadModel ==
    /\ proc = "loading"
    /\ Len(models) < Len(diseases)
    /\ artifacts[NextDisease].present
    /\ models' = Append(models, artifacts[NextDisease])
    /\ UNCHANGED <<proc, artifacts, checks_names, req, call>>

\* line 25, joblib.load raises: the import fails and the process exits
LoadFails ==
    /\ proc = "loading"
    /\ Len(models) < Len(diseases)
    /\ ~artifacts[NextDisease].present
    /\ proc' = "exited"
    /\ models' = <<>>
    /\ UNCHANGED <<artifacts, checks_names, req, call>>

\* line 318, reached only when the whole module body has run
StartServing ==
    /\ proc = "loading"
    /\ Len(models) = Len(diseases)
    /\ proc' = "serving"
    /\ UNCHANGED <<artifacts, models, checks_names, req, call>>

\* the local variables of the activation of predict() serving request r,
\* were input_data a module-level name written by the activation of request 1
Locals_shared(r) == [req[r] EXCEPT !.input_data = req[1].input_data]

\* the local variables of the activation of predict() serving request r
Locals(r) == req[r]

\* a POST /predict is dispatched to the view function
Arrive(r) ==
    /\ proc = "serving"
    /\ req[r].pc = "idle"
    /\ \E form \in Forms : req' = [req EXCEPT ![r] = Start(form)]
    /\ UNCHANGED <<proc, artifacts, models, checks_names, call>>

Parse(r) ==
    /\ req[r].pc = "parse"
    /\ req' = [req EXCEPT ![r] = predict_parse(Locals(r))]
    /\ UNCHANGED <<proc, artifacts, models, checks_names, call>>

Encode(r) ==
    /\ req[r].pc = "encode"
    /\ req' = [req EXCEPT ![r] = predict_encode(Locals(r))]
    /\ UNCHANGED <<proc, artifacts, models, checks_names, call>>

\* an alignment that stores the frame's columns into the model
Align_mutating(r) ==
    /\ req[r].pc = "align"
    /\ req' = [req EXCEPT ![r] = predict_align_loop(Locals(r))]
    /\ models' = [models EXCEPT ![req[r].i].feature_names_in_ = Names(req[r].input_data)]
    /\ UNCHANGED <<proc, artifacts, checks_names, call>>

Align(r) ==
    /\ req[r].pc = "align"
    /\ req' = [req EXCEPT ![r] = predict_align_loop(Locals(r))]
    /\ UNCHANGED <<proc, artifacts, models, checks_names, call>>

Predict(r) ==
    /\ req[r].pc = "predict"
    /\ req' = [req EXCEPT ![r] = predict_results_loop(Locals(r))]
    /\ UNCHANGED <<proc, artifacts, models, checks_names, call>>

Respond(r) ==
    /\ req[r].pc = "respond"
    /\ req' = [req EXCEPT ![r] = predict_respond(Locals(r))]
    /\ UNCHANGED <<proc, artifacts, models, checks_names, call>>

Next ==
    \/ LoadModel
    \/ LoadFails
    \/ StartServing
    \/ \E r \in Requests : Arrive(r)
    \/ \E r \in Requests : Parse(r)
    \/ \E r \in Requests : Encode(r)
    \/ \E r \in Requests : Align(r)
    \/ \E r \in Requests : Predict(r)
    \/ \E r \in Requests : Respond(r)

Spec == Init /\ [][Next]_vars

(***************************************************************************)
(* Calls of the two classification functions on their own.                 *)
(***************************************************************************)
Probabilities == { Rat(k, 20) : k \in 0..20 }

BMIValues == { Rat(k, 10) : k \in {0, 150, 184, 185, 186, 220, 249, 250, 251, 299, 300, 301, 450} }

Systolics == { FromInt(k) : k \in {100, 119, 120, 125, 129, 130, 135, 139, 140, 160} }

Diastolics == { FromInt(k) : k \in {60, 70, 79, 80, 85, 89, 90, 100} }

Levels == { FromInt(k) : k \in {80, 99, 100, 125, 126, 199, 200, 239, 240, 300} }

Calls ==
    { [fn |-> "risk_status", name |-> "", arg |-> p, ret |-> ""] : p \in Probabilities }
    \cup { [fn |-> "metric_status", name |-> "BMI", arg |-> v, ret |-> ""] : v \in BMIValues }
    \cup { [fn |-> "metric_status", name |-> "BloodPressure", arg |-> <<s, d>>, ret |-> ""] :
             s \in Systolics, d \in Diastolics }
    \cup { [fn |-> "metric_status", name |-> n, arg |-> v, ret |-> ""] :
             n \in {"BloodSugar", "Cholesterol", "HeartRate"}, v \in Levels }

InitFn ==
    /\ proc = "loading"
    /\ artifacts = Uniform
    /\ models = <<>>
    /\ checks_names = TRUE
    /\ req = [r \in Requests |-> NewLocals]
    /\ call \in Calls

CallRiskStatus ==
    /\ call.fn = "risk_status"
    /\ call.ret = ""
    /\ call' = [call EXCEPT !.ret = risk_status(call.arg)]
    /\ UNCHANGED <<proc, artifacts, models, checks_names, req>>

CallMetricStatus ==
    /\ call.fn = "metric_status"
    /\ call.ret = ""
    /\ call' = [call EXCEPT !.ret = metric_status(call.name, call.arg)]
    /\ UNCHANGED <<proc, artifacts, models, checks_names, req>>

NextFn == CallRiskStatus \/ CallMetricStatus

SpecFn == InitFn /\ [][NextFn]_vars

(***************************************************************************)
(* Properties.                                                             *)
(***************************************************************************)
Answered(r) == req[r].response.status # 0

\* the numeric value the frame df holds for column n, 0 standing for "absent"
EncodedValue(df, n) == IF HasColumn(df, n) THEN ColumnOf(df, n).value ELSE FromInt(0)

\* some required field is missing, or some numeric field does not parse
Malformed(data) ==
    \E k \in 1..Len(ParseOrder) :
        /\ ParseOrder[k][2] # "div"
        /\ ReadError(data, k) # "none"

HeightNotPositive(data) ==
    /\ "height" \in DOMAIN data
    /\ FloatParses(data.height)
    /\ FloatOf(data.height)[1] <= 0

\* C1: the frame handed to each model's predict_proba has exactly that
\* model's feature_names_in_, in that order and of that length.
C1_VectorMatchesModel ==
    \A r \in Requests : \A k \in 1..Len(req[r].passed) :
        Names(req[r].passed[k]) = models[k].feature_names_in_

\* C2: every feature a model requires reaches it with the value of the
\* encoded observation when the encoded observation has that column, and
\* with 0 only when it has not.
C2_ValuesFromEncoded ==
    \A r \in Requests : \A k \in 1..Len(req[r].passed) :
        \A j \in 1..Len(models[k].feature_names_in_) :
            LET n == models[k].feature_names_in_[j]
            IN  /\ HasColumn(req[r].passed[k], n)
                /\ ColumnOf(req[r].passed[k], n).value = EncodedValue(req[r].encoded, n)

\* C3: a request whose height is <= 0 is answered with a validation error
\* (a 400), not with an unhandled exception and not with a result.
C3_HeightRejected ==
    \A r \in Requests :
        (Answered(r) /\ HeightNotPositive(req[r].data)) =>
            /\ req[r].response.status = 400
            /\ req[r].response.diseases = <<>>
            /\ req[r].response.metrics = <<>>

\* C4: a request with a missing field or an unparsable numeric field is
\* answered with a validation error (a 400) carrying no disease and no
\* metric result; a result is returned only when every field parsed and all
\* four models and all four metrics were evaluated.
C4_AllOrNothing ==
    \A r \in Requests :
        Answered(r) =>
            /\ Malformed(req[r].data) =>
                 /\ req[r].response.status = 400
                 /\ req[r].response.diseases = <<>>
                 /\ req[r].response.metrics = <<>>
            /\ req[r].response.status = 200 =>
                 /\ ~Malformed(req[r].data)
                 /\ Len(req[r].response.diseases) = Len(diseases)
                 /\ Len(req[r].response.metrics) = 4
            /\ req[r].response.status # 200 =>
                 /\ req[r].response.diseases = <<>>
                 /\ req[r].response.metrics = <<>>

RiskRank(label) ==
    IF label = "Low Risk" THEN 1 ELSE IF label = "Intermediate Risk" THEN 2 ELSE 3

RLeq(a, b) == ~RLess(b, a)

\* C5: risk_status(p) is High Risk iff p > 0.7, Intermediate Risk iff
\* 0.4 < p <= 0.7, Low Risk iff p <= 0.4, and is non-decreasing in p.
C5_RiskThresholds ==
    (call.fn = "risk_status" /\ call.ret # "") =>
        LET p == call.arg
        IN  /\ call.ret = "High Risk" <=> RLess(<<7, 10>>, p)
            /\ call.ret = "Intermediate Risk" <=> (RLess(<<4, 10>>, p) /\ RLeq(p, <<7, 10>>))
            /\ call.ret = "Low Risk" <=> RLeq(p, <<4, 10>>)
            /\ \A q \in Probabilities :
                   RLeq(q, p) => RiskRank(risk_status(q)) <= RiskRank(call.ret)

C5_Witness ==
    /\ call.fn = "risk_status"
    /\ call.arg = <<7, 10>>
    /\ call.ret = "Intermediate Risk"

\* C6: metric_status("BloodPressure", (s, d)) is the label of the first
\* matching rule; "High BP Stage 2" exactly when s >= 140 and d >= 90.
C6_BloodPressureRules ==
    (call.fn = "metric_status" /\ call.name = "BloodPressure" /\ call.ret # "") =>
        LET s  == call.arg[1]
            d  == call.arg[2]
            r1 == RLess(s, FromInt(120)) /\ RLess(d, FromInt(80))
            r2 == RLess(s, FromInt(130)) /\ RLess(d, FromInt(80))
            r3 == RLess(s, FromInt(140)) \/ RLess(d, FromInt(90))
        IN  /\ r1 => call.ret = "Normal"
            /\ (~r1 /\ r2) => call.ret = "Elevated"
            /\ (~r1 /\ ~r2 /\ r3) => call.ret = "High BP Stage 1"
            /\ (~r1 /\ ~r2 /\ ~r3) => call.ret = "High BP Stage 2"
            /\ call.ret = "High BP Stage 2" <=>
                   (RLeq(FromInt(140), s) /\ RLeq(FromInt(90), d))
            /\ (s = FromInt(135) /\ d = FromInt(70)) => call.ret = "High BP Stage 1"

C6_Witness ==
    /\ call.fn = "metric_status"
    /\ call.name = "BloodPressure"
    /\ call.arg = <<FromInt(135), FromInt(70)>>
    /\ call.ret = "High BP Stage 1"

\* C7: metric_status("BMI", v) is Underweight for v < 18.5, Normal for
\* 18.5 <= v < 25, Overweight for 25 <= v < 30 and Obese for v >= 30.
C7_BMIBoundaries ==
    (call.fn = "metric_status" /\ call.name = "BMI" /\ call.ret # "") =>
        LET v == call.arg
        IN  /\ call.ret = "Underweight" <=> RLess(v, <<37, 2>>)
            /\ call.ret = "Normal" <=> (RLeq(<<37, 2>>, v) /\ RLess(v, FromInt(25)))
            /\ call.ret = "Overweight" <=> (RLeq(FromInt(25), v) /\ RLess(v, FromInt(30)))
            /\ call.ret = "Obese" <=> RLeq(FromInt(30), v)

C7_Witness ==
    /\ call.fn = "metric_status"
    /\ call.name = "BMI"
    /\ call.arg = <<37, 2>>
    /\ call.ret = "Normal"

SomeArtifactMissing == \E k \in 1..Len(diseases) : ~artifacts[diseases[k]].present

\* C8: a request is handled only by a process that loaded all four models
\* from their artifacts; a process one of whose loads failed never serves
\* and no response carries a result of a model that was not loaded.
C8_ServeOnlyLoaded ==
    /\ SomeArtifactMissing => proc # "serving"
    /\ \A r \in Requests :
          req[r].pc # "idle" =>
              /\ proc = "serving"
              /\ Len(models) = Len(diseases)
              /\ \A k \in 1..Len(diseases) :
                    /\ models[k].present
                    /\ models[k] = artifacts[diseases[k]]

C8_Witness ==
    /\ proc = "exited"
    /\ ~artifacts["Diabetes"].present
    /\ \A r \in Requests : req[r].pc = "idle"

\* C9: once the process serves, no step changes the model registry.
C9_RegistryImmutable == [][proc = "serving" => models' = models]_vars

C9_Witness ==
    /\ proc = "serving"
    /\ \E r \in Requests : req[r].pc = "done"
    /\ \E r \in Requests : req[r].pc = "failed"

\* C10: whatever the interleaving, an answered request has the feature
\* frames, the disease results and the metric results of a run of the
\* handler alone on the request's own form.
C10_RequestLocal ==
    \A r \in Requests :
        Answered(r) =>
            LET alone == predict(Start(req[r].data))
            IN  /\ req[r].response = alone.response
                /\ req[r].encoded = alone.encoded
                /\ req[r].passed = alone.passed

C10_Witness ==
    \E r \in Requests : \E q \in Requests :
        /\ req[r].pc = "done"
        /\ req[q].pc = "predict"
        /\ req[q].data.gender # req[r].data.gender

====
